---- MODULE Spec2Model ----
(***************************************************************************)
(* Model of the task queue: the task state machine (internal/task), the    *)
(* Redis-stream queue (internal/queue), the dead letter queue and the      *)
(* worker pool with its recovery loop (internal/worker).                   *)
(*                                                                         *)
(* Every action is one store call of one process, together with the        *)
(* in-memory computation that precedes it, so that processes interleave    *)
(* (and crash) between any two store calls.                                *)
(***************************************************************************)
EXTENDS Integers, Sequences, FiniteSets, TLC

\* ------------------------------------------------------------------ bounds
NumTasks == 1
NumPools == 2
MaxMsgs == 3
MaxCrashes == 1
NumRecovering == 1
NumSeeded == 4
MaxRetriesBound == 2
MaxAttempts == 3
NumSchedulers == 2
MaxSchedCrashes == 1
Concurrency == 2
HeartbeatTimeout == 1
MaxQueueSize == 1
NumCreates == 3
MaxBackoffAttempt == 4
JitterScale == 10

\* --------------------------------------------------- task.Priority (iota)
PriorityLow == 0
PriorityNormal == 1
PriorityHigh == 2
PriorityCritical == 3

AllPriorities == {PriorityLow, PriorityNormal, PriorityHigh, PriorityCritical}

\* the scan order used by DequeueBlocking and ClaimOrphanedTasks
priorities == <<PriorityCritical, PriorityHigh, PriorityNormal, PriorityLow>>

\* ------------------------------------------------------------- task.State
StatePending == "pending"
StateScheduled == "scheduled"
StateRunning == "running"
StateCompleted == "completed"
StateFailed == "failed"
StateRetrying == "retrying"
StateCancelled == "cancelled"
StateDeadLetter == "dead_letter"

States == {StatePending, StateScheduled, StateRunning, StateCompleted,
           StateFailed, StateRetrying, StateCancelled, StateDeadLetter}

IsFinal(s) == s \in {StateCompleted, StateFailed, StateCancelled, StateDeadLetter}

ValidTransitions(s) ==
    CASE s = StatePending    -> {StateScheduled, StateRunning, StateCancelled}
      [] s = StateScheduled  -> {StatePending, StateRunning, StateCancelled}
      [] s = StateRunning    -> {StateCompleted, StateFailed, StateRetrying, StateCancelled}
      [] s = StateRetrying   -> {StateRunning, StateFailed, StateDeadLetter, StateCancelled}
      [] s = StateFailed     -> {StateRetrying, StateDeadLetter, StatePending}
      [] s = StateCompleted  -> {}
      [] s = StateCancelled  -> {}
      [] s = StateDeadLetter -> {StatePending}
      [] OTHER               -> {}

\* a transition test that also accepts staying in the same state
CanTransitionToOrStay(s, target) == target \in ValidTransitions(s) \cup {s}

CanTransitionTo(s, target) == target \in ValidTransitions(s)

\* ------------------------------------------------------------- task.Task
\* A task value.  error is "" or the handler's message, result is "" or the
\* handler's result, worker is 0 (no worker) or the id of a pool.
NoTask == [id |-> 0]
NoError == ""
NoResult == ""
NoWorker == 0
Boom == "boom"
ResultR == "R"

New(id, prio, maxRetries) ==
    [id |-> id, priority |-> prio, state |-> StatePending, attempts |-> 0,
     max_retries |-> maxRetries, error |-> NoError, result |-> NoResult,
     worker |-> NoWorker]

\* a retry test that also passes when attempts = max_retries
CanRetryInclusive(t) == t.attempts <= t.max_retries

CanRetry(t) == t.attempts < t.max_retries

IncrementAttempts(t) == [t EXCEPT !.attempts = @ + 1]

\* The state machine operations return [ok, task]: ok = FALSE is
\* ErrInvalidTransition and task is then the task as the call left it.
Transition(t, target) ==
    IF CanTransitionTo(t.state, target)
    THEN [ok |-> TRUE, task |-> [t EXCEPT !.state = target]]
    ELSE [ok |-> FALSE, task |-> t]

Start(t, workerID) ==
    LET r == Transition(t, StateRunning)
    IN  IF r.ok
        THEN [ok |-> TRUE, task |-> IncrementAttempts([r.task EXCEPT !.worker = workerID])]
        ELSE r

\* a Complete that leaves the error of an earlier attempt in place
CompleteKeepsError(t, result) ==
    LET r == Transition(t, StateCompleted)
    IN  IF r.ok THEN [ok |-> TRUE, task |-> [r.task EXCEPT !.result = result]] ELSE r

Complete(t, result) ==
    LET r == Transition(t, StateCompleted)
    IN  IF r.ok
        THEN [ok |-> TRUE, task |-> [r.task EXCEPT !.result = result, !.error = NoError]]
        ELSE r

Fail(t, errMsg) ==
    LET r == Transition(t, StateFailed)
    IN  IF r.ok THEN [ok |-> TRUE, task |-> [r.task EXCEPT !.error = errMsg]] ELSE r

Retry(t) ==
    IF ~CanRetry(t) THEN Transition(t, StateDeadLetter) ELSE Transition(t, StateRetrying)

Cancel(t) == Transition(t, StateCancelled)

MoveToDLQ(t) == Transition(t, StateDeadLetter)

\* Requeue assigns WorkerID, Attempts and Error before it calls Transition
Requeue(t) ==
    Transition([t EXCEPT !.worker = NoWorker, !.attempts = 0, !.error = NoError],
               StatePending)

\* Retryer.PrepareForRequeue: Retry with its error ignored, then the state
\* is forced to pending.
PrepareForRequeue(t) == [Retry(t).task EXCEPT !.state = StatePending]


\* ------------------------------------------------------------------ state
VARIABLES
    store,      \* task:{id} keys: task id -> stored Task, or NoTask
    msgs,       \* every message ever appended to a priority stream, by id
    dlqStream,  \* tasks:dlq
    dlqSet,     \* tasks:dlq:set
    pc,         \* worker fiber of each pool: its position in processNextTask
    lt,         \* worker fiber: its in-memory Task (t)
    lm,         \* worker fiber: its messageID
    rpc,        \* recovery fiber of each pool: its position
    rbatch,     \* recovery fiber: tasks and messageIDs claimed in this pass
    creq,       \* the Cancel request in flight: the Task it is about to write
    crashes,    \* number of pool crashes so far
    hist,       \* per task: what has happened to it (observation only)
    zset,       \* tasks:scheduled: per task id, absent, or its score against now
    lock,       \* scheduler:lock: TRUE while the key exists
    sched,      \* scheduler instance: position in processDueTasks, taskIDs, t
    sreq,       \* the scheduled Create in flight: id it is about to ZADD, or 0
    scrashes,   \* number of scheduler crashes so far
    sem,        \* concurrencySem: number of slots held
    wpc,        \* worker goroutine of one pool: its position in the loop
    pstate,     \* Pool.state
    stopped,    \* stopCh is closed
    rpaused,    \* worker:{id}:paused exists in the store
    began,      \* per goroutine: the pauses in force ever since its iteration began
    execErr,    \* per goroutine: the error Execute returned to processNextTask
    rloop,      \* recovery goroutine of that pool: its position in recoveryLoop
    stopAt,     \* the caller of Pool.Stop: its position
    hbKey,      \* worker:{id}:heartbeat: time left before it expires, 0 = absent
    infoKey,    \* worker:{id}:info: time left and the WorkerInfo stored
    activeSet,  \* workers:active
    hb,         \* Heartbeat of that pool: loop position, stopCh, h.info
    listed,     \* the last reply of GetActiveWorkers
    bo,         \* a caller of CalculateBackoff: policy, attempt, draw, reply
    smTask,     \* a Task value held by a caller of the state machine
    smLast,     \* the last state-machine call on smTask and what it returned
    areq,       \* the admin RetryTask request in flight: position and Task
    dreq        \* the DLQ.Retry call in flight: position, entry and Task

\* the variables of the queue, its workers and its recovery fibers
queueVars == <<store, msgs, dlqStream, dlqSet, pc, lt, lm, rpc, rbatch, creq, crashes, hist>>

\* the variables of a caller of the state machine
smVars == <<smTask, smLast>>

\* the variables the queue's own actions leave alone
\* the variables of the manual requeue operations
manualVars == <<areq, dreq>>

schedVars == <<zset, lock, sched, sreq, scrashes>>

loopVars == <<sem, wpc, pstate, stopped, rpaused, began, execErr, rloop, stopAt>>

hbVars == <<hbKey, infoKey, activeSet, hb, listed>>

boVars == <<bo>>

extVars == <<smVars, loopVars, hbVars, boVars, manualVars, schedVars>>

vars == <<queueVars, extVars>>

Pools == 1..NumPools
TaskIds == DOMAIN store
SubmitPriorities == {PriorityHigh, PriorityNormal}
\* the pools whose recovery ticker fires within the modelled window
RecoveryPools == 1..NumRecovering
SubmitRetries == 1..MaxRetriesBound

NoHist == [invoked |-> 0, cancelled |-> FALSE, early |-> FALSE]

NoCall == [op |-> "none"]

InitSM ==
    /\ smTask = NoTask
    /\ smLast = NoCall

NoRequest == [at |-> "idle"]

NoRetry == [at |-> "idle", last |-> "none"]

InitManual ==
    /\ areq = NoRequest
    /\ dreq = NoRetry

Schedulers == 1..NumSchedulers

SchedIdle == [at |-> "idle", batch |-> <<>>, task |-> NoTask]

InitSched ==
    /\ zset = [t \in 1..NumTasks |-> "absent"]
    /\ lock = FALSE
    /\ sched = [s \in Schedulers |-> SchedIdle]
    /\ sreq = 0
    /\ scrashes = 0

StateIdle == "idle"
StateBusy == "busy"
StatePaused == "paused"
StateShuttingDown == "shutting_down"

Fibers == 1..Concurrency

\* processNextTask has not called Execute
NotRun == "unset"

\* no pause has been in force since the iteration began: local is the
\* local pause, remote the pause key, any one or the other without a gap
NoPause == [local |-> FALSE, remote |-> FALSE, any |-> FALSE]

\* NewPool: the gate is empty and no goroutine runs yet
InitLoop ==
    /\ sem = 0
    /\ wpc = [f \in Fibers |-> "unstarted"]
    /\ pstate = StateIdle
    /\ stopped = FALSE
    /\ rpaused = FALSE
    /\ began = [f \in Fibers |-> NoPause]
    /\ execErr = [f \in Fibers |-> NotRun]
    /\ rloop = "unstarted"
    /\ stopAt = "none"

\* the pool whose goroutines are followed one by one
PoolId == 1

\* NewHeartbeat: h.info.  UpdateState, UpdateActiveTasks and
\* UpdateConcurrency have no caller: h.info keeps these values.
NewHeartbeat == [state |-> StateIdle, active_tasks |-> 0, concurrency |-> 0]

NoInfo == [state |-> "none"]

InfoTTL == HeartbeatTimeout * 2

InitHeartbeat ==
    /\ hbKey = 0
    /\ infoKey = [ttl |-> 0, data |-> NoInfo]
    /\ activeSet = {}
    /\ hb = [at |-> "unstarted", stopCh |-> FALSE, info |-> NewHeartbeat]
    /\ listed = [gen |-> 0, workers |-> {}]

\* DefaultRetryPolicy.  Durations are in tenths of a second; the jitter
\* factor is in units of 1/JitterScale.
DefaultRetryPolicy ==
    [max_attempts |-> 3, initial |-> 10, max |-> 3000, factor |-> 2, jitter |-> 1]

\* RetryPolicy.ShouldRetry
ShouldRetry(p, t) == t.attempts < p.max_attempts

\* a caller of CalculateBackoff before its first call
NoBackoff == [attempt |-> 0, draw |-> 0, reply |-> 0]

InitBackoff == bo = [policy |-> DefaultRetryPolicy] @@ NoBackoff

InitExt == InitSM /\ InitManual /\ InitSched /\ InitLoop /\ InitHeartbeat /\ InitBackoff

InitQueue ==
    /\ store = [t \in 1..NumTasks |-> NoTask]
    /\ msgs = <<>>
    /\ dlqStream = <<>>
    /\ dlqSet = {}
    /\ pc = [p \in Pools |-> "idle"]
    /\ lt = [p \in Pools |-> NoTask]
    /\ lm = [p \in Pools |-> 0]
    /\ rpc = [p \in Pools |-> "idle"]
    /\ rbatch = [p \in Pools |-> <<>>]
    /\ creq = NoTask
    /\ crashes = 0
    /\ hist = [t \in 1..NumTasks |-> NoHist]

Init == InitExt /\ InitQueue

\* ------------------------------------------------- the store's stream calls
\* A message is "new" (appended, delivered to nobody), "pending" (in the
\* consumer group's PEL) or "acked".  The PEL entry's owner is left out: no
\* call of the program reads it (XPENDING is not filtered by consumer).
NewMsg(t) ==
    [task |-> t.id, priority |-> t.priority, st |-> "new", idle |-> FALSE]

XAdd(ms, t) == Append(ms, NewMsg(t))

\* an XACK that leaves the PEL as it is
XAckDropped(ms, i) == ms

\* XACK: removes the message from the PEL; a message that is not pending is
\* left as it is.
XAck(ms, i) ==
    [ms EXCEPT ![i] = [@ EXCEPT !.st = IF @ = "pending" THEN "acked" ELSE @,
                                !.idle = FALSE]]

\* the oldest undelivered message of a priority stream, 0 when there is none
FirstNew(ms, p) ==
    LET new == {i \in 1..Len(ms) : ms[i].priority = p /\ ms[i].st = "new"}
    IN  IF new = {} THEN 0 ELSE CHOOSE i \in new : \A j \in new : i <= j

\* XREADGROUP over the four streams with ">" and COUNT 1: COUNT is per
\* stream, so the reply holds the oldest new message of every stream that
\* has one, in the order the streams were named.
XReadGroupReply(ms) ==
    LET heads == [k \in 1..Len(priorities) |-> FirstNew(ms, priorities[k])]
    IN  SelectSeq(heads, LAMBDA i : i # 0)

RECURSIVE Deliver(_, _, _)
Deliver(ms, reply, consumer) ==
    IF reply = <<>> THEN ms
    ELSE Deliver([ms EXCEPT ![Head(reply)] =
                     [@ EXCEPT !.st = "pending", !.idle = FALSE]],
                 Tail(reply), consumer)

\* the message of the last stream of the reply
LastMessage(reply) == reply[Len(reply)]

\* msg := result[0].Messages[0]
FirstMessage(reply) == Head(reply)

\* XCLAIM without MinIdle: succeeds on every PEL entry
XClaimableAny(ms, i) == ms[i].st = "pending"

\* XCLAIM with MinIdle: succeeds only on a PEL entry idle for claim_min_idle
XClaimable(ms, i) == ms[i].st = "pending" /\ ms[i].idle

XClaim(ms, i, consumer) ==
    [ms EXCEPT ![i].idle = FALSE]

\* the order in which ClaimOrphanedTasks visits PEL entries
ScanBefore(ms, i, j) ==
    \/ ms[i].priority > ms[j].priority
    \/ ms[i].priority = ms[j].priority /\ i < j

\* -------------------------------------------------------------- producers
\* handlers.Create: FromRequest, then Enqueue (record, then stream)
Submit(t) ==
    /\ store[t] = NoTask
    /\ Len(msgs) < MaxMsgs
    /\ \E prio \in SubmitPriorities, m \in SubmitRetries :
          LET task == New(t, prio, m)
          IN  /\ store' = [store EXCEPT ![t] = task]
              /\ msgs' = XAdd(msgs, task)
    /\ UNCHANGED extVars
    /\ UNCHANGED <<dlqStream, dlqSet, pc, lt, lm, rpc, rbatch, creq, crashes, hist>>

\* handlers.Cancel, first store call: GetTask, the state check and sm.Cancel
CancelGet(t) ==
    /\ creq = NoTask
    /\ store[t] # NoTask
    /\ store[t].state \in {StatePending, StateScheduled}
    /\ Cancel(store[t]).ok
    /\ creq' = Cancel(store[t]).task
    /\ UNCHANGED extVars
    /\ UNCHANGED <<store, msgs, dlqStream, dlqSet, pc, lt, lm, rpc, rbatch, crashes, hist>>

Delivered(t) == \E i \in 1..Len(msgs) : msgs[i].task = t /\ msgs[i].st # "new"

\* handlers.Cancel, second store call: UpdateTask
CancelPut ==
    /\ creq # NoTask
    /\ store' = [store EXCEPT ![creq.id] = creq]
    /\ hist' = [hist EXCEPT ![creq.id] =
                   [@ EXCEPT !.cancelled = TRUE,
                             !.early = @ \/ (~Delivered(creq.id) /\ hist[creq.id].invoked = 0)]]
    /\ creq' = NoTask
    /\ UNCHANGED extVars
    /\ UNCHANGED <<msgs, dlqStream, dlqSet, pc, lt, lm, rpc, rbatch, crashes>>


\* ------------------------------------------------------------ worker fiber
\* processNextTask, DequeueBlocking: the XREADGROUP call.  Every message of
\* the reply enters the PEL; the fiber keeps the first one.
DequeueBlocking(w) ==
    /\ pc[w] = "idle"
    /\ XReadGroupReply(msgs) # <<>>
    /\ msgs' = Deliver(msgs, XReadGroupReply(msgs), w)
    /\ lm' = [lm EXCEPT ![w] = FirstMessage(XReadGroupReply(msgs))]
    /\ pc' = [pc EXCEPT ![w] = "got"]
    /\ UNCHANGED extVars
    /\ UNCHANGED <<store, dlqStream, dlqSet, lt, rpc, rbatch, creq, crashes, hist>>

\* DequeueBlocking when GetTask returns an error: XACK of the message and
\* the reply "no task"
AckAndDiscard(w) ==
    /\ msgs' = XAck(msgs, lm[w])
    /\ lt' = [lt EXCEPT ![w] = NoTask]
    /\ pc' = [pc EXCEPT ![w] = "idle"]
    /\ lm' = [lm EXCEPT ![w] = 0]

\* DequeueBlocking's GetTask, then sm.Start on the value read.  When the
\* record is absent the message is acknowledged and discarded.  When Start
\* is rejected processNextTask returns: the message stays in the PEL.
LoadAndStart(w) ==
    /\ pc[w] = "got"
    /\ IF store[msgs[lm[w]].task] = NoTask
       THEN AckAndDiscard(w)
       ELSE LET r == Start(store[msgs[lm[w]].task], w)
            IN  /\ msgs' = msgs
                /\ IF r.ok
                   THEN /\ lt' = [lt EXCEPT ![w] = r.task]
                        /\ pc' = [pc EXCEPT ![w] = "started"]
                        /\ lm' = lm
                   ELSE /\ lt' = [lt EXCEPT ![w] = NoTask]
                        /\ pc' = [pc EXCEPT ![w] = "idle"]
                        /\ lm' = [lm EXCEPT ![w] = 0]
    /\ UNCHANGED extVars
    /\ UNCHANGED <<store, dlqStream, dlqSet, rpc, rbatch, creq, crashes, hist>>

\* DequeueBlocking when the GET of the record fails although the record is
\* there (a timeout, a dropped connection): the same error branch
GetTaskFails(w) ==
    /\ pc[w] = "got"
    /\ store[msgs[lm[w]].task] # NoTask
    /\ AckAndDiscard(w)
    /\ UNCHANGED extVars
    /\ UNCHANGED <<store, dlqStream, dlqSet, rpc, rbatch, creq, crashes, hist>>

\* time passes: the record of a task in a final state, written by
\* UpdateTask with the retention TTL, expires
RecordExpire(t) ==
    /\ store[t] # NoTask
    /\ IsFinal(store[t].state)
    /\ store' = [store EXCEPT ![t] = NoTask]
    /\ UNCHANGED extVars
    /\ UNCHANGED <<msgs, dlqStream, dlqSet, pc, lt, lm, rpc, rbatch, creq, crashes, hist>>

\* UpdateTask(running); the handler is invoked right after it
PersistRunning(w) ==
    /\ pc[w] = "started"
    /\ store' = [store EXCEPT ![lt[w].id] = lt[w]]
    /\ hist' = [hist EXCEPT ![lt[w].id].invoked = @ + 1]
    /\ pc' = [pc EXCEPT ![w] = "running"]
    /\ UNCHANGED extVars
    /\ UNCHANGED <<msgs, dlqStream, dlqSet, lt, lm, rpc, rbatch, creq, crashes>>

\* the handler returned a result: handleTaskSuccess up to UpdateTask
HandleSuccess(w) ==
    /\ pc[w] = "running"
    /\ LET r == Complete(lt[w], ResultR)
       IN  IF r.ok
           THEN /\ lt' = [lt EXCEPT ![w] = r.task]
                /\ store' = [store EXCEPT ![r.task.id] = r.task]
                /\ pc' = [pc EXCEPT ![w] = "ack_ok"]
                /\ lm' = lm
           ELSE /\ lt' = [lt EXCEPT ![w] = NoTask]
                /\ store' = store
                /\ pc' = [pc EXCEPT ![w] = "idle"]
                /\ lm' = [lm EXCEPT ![w] = 0]
    /\ UNCHANGED extVars
    /\ UNCHANGED <<msgs, dlqStream, dlqSet, rpc, rbatch, creq, crashes, hist>>

\* Acknowledge: the last store call of each of the three settlements
Acknowledge(w) ==
    /\ pc[w] \in {"ack_ok", "rq_ack", "dlq_ack"}
    /\ msgs' = XAck(msgs, lm[w])
    /\ pc' = [pc EXCEPT ![w] = "idle"]
    /\ lt' = [lt EXCEPT ![w] = NoTask]
    /\ lm' = [lm EXCEPT ![w] = 0]
    /\ UNCHANGED extVars
    /\ UNCHANGED <<store, dlqStream, dlqSet, rpc, rbatch, creq, crashes, hist>>

\* the handler returned an error: handleTaskFailure up to its first
\* UpdateTask, in the retry branch (sm.Retry, t.Error) or in the DLQ branch
\* (sm.Fail), chosen by t.CanRetry()
HandleFailure(w) ==
    /\ pc[w] = "running"
    /\ IF CanRetry(lt[w])
       THEN LET t == [Retry(lt[w]).task EXCEPT !.error = Boom]
            IN  /\ lt' = [lt EXCEPT ![w] = t]
                /\ store' = [store EXCEPT ![t.id] = t]
                /\ pc' = [pc EXCEPT ![w] = "rq_set"]
       ELSE LET t == Fail(lt[w], Boom).task
            IN  /\ lt' = [lt EXCEPT ![w] = t]
                /\ store' = [store EXCEPT ![t.id] = t]
                /\ pc' = [pc EXCEPT ![w] = "dlq_xadd"]
    /\ UNCHANGED extVars
    /\ UNCHANGED <<msgs, dlqStream, dlqSet, lm, rpc, rbatch, creq, crashes, hist>>

\* retry branch: PrepareForRequeue, then Enqueue's write of the record
RequeueSet(w) ==
    /\ pc[w] = "rq_set"
    /\ LET t == PrepareForRequeue(lt[w])
       IN  /\ lt' = [lt EXCEPT ![w] = t]
           /\ store' = [store EXCEPT ![t.id] = t]
    /\ pc' = [pc EXCEPT ![w] = "rq_xadd"]
    /\ UNCHANGED extVars
    /\ UNCHANGED <<msgs, dlqStream, dlqSet, lm, rpc, rbatch, creq, crashes, hist>>

\* retry branch: Enqueue's XADD to the task's priority stream
RequeueXAdd(w) ==
    /\ pc[w] = "rq_xadd"
    /\ Len(msgs) < MaxMsgs
    /\ msgs' = XAdd(msgs, lt[w])
    /\ pc' = [pc EXCEPT ![w] = "rq_ack"]
    /\ UNCHANGED extVars
    /\ UNCHANGED <<store, dlqStream, dlqSet, lt, lm, rpc, rbatch, creq, crashes, hist>>

\* DLQ.Add: the in-memory move to dead_letter (forced when the transition is
\* invalid) and the XADD of the entry to tasks:dlq.  The record is not written.
DLQEntry(t, reason) ==
    [task |-> t.id, state |-> t.state, reason |-> reason, original_error |-> t.error,
     data |-> t, deleted |-> FALSE]

DLQAddStream(w) ==
    /\ pc[w] = "dlq_xadd"
    /\ LET t == [MoveToDLQ(lt[w]).task EXCEPT !.state = StateDeadLetter]
       IN  /\ lt' = [lt EXCEPT ![w] = t]
           /\ dlqStream' = Append(dlqStream, DLQEntry(t, "max retries exceeded"))
    /\ pc' = [pc EXCEPT ![w] = "dlq_sadd"]
    /\ UNCHANGED extVars
    /\ UNCHANGED <<store, msgs, dlqSet, lm, rpc, rbatch, creq, crashes, hist>>

\* DLQ.Add: SADD to tasks:dlq:set
DLQAddSet(w) ==
    /\ pc[w] = "dlq_sadd"
    /\ dlqSet' = dlqSet \cup {lt[w].id}
    /\ pc' = [pc EXCEPT ![w] = "dlq_ack"]
    /\ UNCHANGED extVars
    /\ UNCHANGED <<store, msgs, dlqStream, lt, lm, rpc, rbatch, creq, crashes, hist>>

\* ---------------------------------------------------------- recovery fiber
\* ClaimOrphanedTasks: XCLAIM of one PEL entry that has been idle for
\* claim_min_idle, whoever owns it, and GetTask of its task.  Entries are
\* visited stream by stream, critical first, each stream in id order.  An
\* entry whose record is absent is claimed and then skipped: it is not
\* returned.
ClaimOrphan(p, i) ==
    /\ rpc[p] \in {"idle", "scan"}
    /\ i \in 1..Len(msgs)
    /\ XClaimable(msgs, i)
    /\ rbatch[p] # <<>> => ScanBefore(msgs, rbatch[p][Len(rbatch[p])].m, i)
    /\ msgs' = XClaim(msgs, i, p)
    /\ IF store[msgs[i].task] = NoTask
       THEN UNCHANGED <<rbatch, rpc>>
       ELSE /\ rbatch' = [rbatch EXCEPT ![p] =
                             Append(@, [t |-> store[msgs[i].task], m |-> i])]
            /\ rpc' = [rpc EXCEPT ![p] = "scan"]
    /\ UNCHANGED extVars
    /\ UNCHANGED <<store, dlqStream, dlqSet, pc, lt, lm, creq, crashes, hist>>

\* recoverOrphanedTasks: PrepareForRequeue, then Enqueue's write of the record
RecoverSet(p) ==
    /\ rpc[p] \in {"scan", "set"}
    /\ LET t == PrepareForRequeue(Head(rbatch[p]).t)
       IN  /\ store' = [store EXCEPT ![t.id] = t]
           /\ rbatch' = [rbatch EXCEPT ![p] = <<[Head(@) EXCEPT !.t = t]>> \o Tail(@)]
    /\ rpc' = [rpc EXCEPT ![p] = "xadd"]
    /\ UNCHANGED extVars
    /\ UNCHANGED <<msgs, dlqStream, dlqSet, pc, lt, lm, creq, crashes, hist>>

\* recoverOrphanedTasks: Enqueue's XADD
RecoverXAdd(p) ==
    /\ rpc[p] = "xadd"
    /\ Len(msgs) < MaxMsgs
    /\ msgs' = XAdd(msgs, Head(rbatch[p]).t)
    /\ rpc' = [rpc EXCEPT ![p] = "ack"]
    /\ UNCHANGED extVars
    /\ UNCHANGED <<store, dlqStream, dlqSet, pc, lt, lm, rbatch, creq, crashes, hist>>

\* recoverOrphanedTasks: Acknowledge of the old message, then the next task
RecoverAck(p) ==
    /\ rpc[p] = "ack"
    /\ msgs' = XAck(msgs, Head(rbatch[p]).m)
    /\ rbatch' = [rbatch EXCEPT ![p] = Tail(@)]
    /\ rpc' = [rpc EXCEPT ![p] = IF Tail(rbatch[p]) = <<>> THEN "idle" ELSE "set"]
    /\ UNCHANGED extVars
    /\ UNCHANGED <<store, dlqStream, dlqSet, pc, lt, lm, creq, crashes, hist>>

\* ---------------------------------------------------------- manual requeue
\* AdminHandler.RetryTask: GetTask, the state check and sm.Requeue
AdminRetryGet(t) ==
    /\ areq.at = "idle"
    /\ store[t] # NoTask
    /\ store[t].state \in {StateFailed, StateDeadLetter}
    /\ Requeue(store[t]).ok
    /\ areq' = [at |-> "put", task |-> Requeue(store[t]).task]
    /\ UNCHANGED <<queueVars, smVars, loopVars, hbVars, boVars, schedVars, dreq>>

\* AdminHandler.RetryTask: UpdateTask
AdminRetryPut ==
    /\ areq.at = "put"
    /\ store' = [store EXCEPT ![areq.task.id] = areq.task]
    /\ areq' = [areq EXCEPT !.at = "set"]
    /\ UNCHANGED <<msgs, dlqStream, dlqSet, pc, lt, lm, rpc, rbatch, creq, crashes, hist>>
    /\ UNCHANGED <<smVars, loopVars, hbVars, boVars, schedVars, dreq>>

\* AdminHandler.RetryTask: Enqueue's write of the record
AdminRetrySet ==
    /\ areq.at = "set"
    /\ store' = [store EXCEPT ![areq.task.id] = areq.task]
    /\ areq' = [areq EXCEPT !.at = "xadd"]
    /\ UNCHANGED <<msgs, dlqStream, dlqSet, pc, lt, lm, rpc, rbatch, creq, crashes, hist>>
    /\ UNCHANGED <<smVars, loopVars, hbVars, boVars, schedVars, dreq>>

\* AdminHandler.RetryTask: Enqueue's XADD
AdminRetryXAdd ==
    /\ areq.at = "xadd"
    /\ Len(msgs) < MaxMsgs
    /\ msgs' = XAdd(msgs, areq.task)
    /\ areq' = NoRequest
    /\ UNCHANGED <<store, dlqStream, dlqSet, pc, lt, lm, rpc, rbatch, creq, crashes, hist>>
    /\ UNCHANGED <<smVars, loopVars, hbVars, boVars, schedVars, dreq>>

\* DLQ.List: the entries of tasks:dlq that were not deleted, oldest first;
\* DLQ.Retry takes the first one whose task has the id asked for (0: none)
FindEntry(t) ==
    LET found == {k \in 1..Len(dlqStream) :
                     dlqStream[k].task = t /\ ~dlqStream[k].deleted}
    IN  IF found = {} THEN 0 ELSE CHOOSE k \in found : \A j \in found : k <= j

\* DLQ.Retry when List holds no entry for the id: ErrTaskNotFound
DLQRetryNotFound(t) ==
    /\ dreq.at = "idle"
    /\ FindEntry(t) = 0
    /\ dreq' = [at |-> "idle", last |-> "not_found"]
    /\ UNCHANGED <<queueVars, smVars, loopVars, hbVars, boVars, schedVars, areq>>

\* DLQ.Retry: List, the search for the entry, and sm.Requeue on its Task
DLQRetryList(t) ==
    /\ dreq.at = "idle"
    /\ FindEntry(t) # 0
    /\ LET k == FindEntry(t)
           r == Requeue(dlqStream[k].data)
       IN  dreq' = IF r.ok
                   THEN [at |-> "set", last |-> dreq.last, task |-> r.task,
                         mid |-> k, nmsgs |-> Len(msgs)]
                   ELSE [at |-> "idle", last |-> "invalid"]
    /\ UNCHANGED <<queueVars, smVars, loopVars, hbVars, boVars, schedVars, areq>>

\* DLQ.Retry: Enqueue's write of the record
DLQRetrySet ==
    /\ dreq.at = "set"
    /\ store' = [store EXCEPT ![dreq.task.id] = dreq.task]
    /\ dreq' = [dreq EXCEPT !.at = "xadd"]
    /\ UNCHANGED <<msgs, dlqStream, dlqSet, pc, lt, lm, rpc, rbatch, creq, crashes, hist>>
    /\ UNCHANGED <<smVars, loopVars, hbVars, boVars, schedVars, areq>>

\* DLQ.Retry: Enqueue's XADD
DLQRetryXAdd ==
    /\ dreq.at = "xadd"
    /\ Len(msgs) < MaxMsgs
    /\ msgs' = XAdd(msgs, dreq.task)
    /\ dreq' = [dreq EXCEPT !.at = "xdel"]
    /\ UNCHANGED <<store, dlqStream, dlqSet, pc, lt, lm, rpc, rbatch, creq, crashes, hist>>
    /\ UNCHANGED <<smVars, loopVars, hbVars, boVars, schedVars, areq>>

\* DLQ.Remove: XDEL of the entry by its message id
DLQRetryXDel ==
    /\ dreq.at = "xdel"
    /\ dlqStream' = [dlqStream EXCEPT ![dreq.mid].deleted = TRUE]
    /\ dreq' = [dreq EXCEPT !.at = "srem"]
    /\ UNCHANGED <<store, msgs, dlqSet, pc, lt, lm, rpc, rbatch, creq, crashes, hist>>
    /\ UNCHANGED <<smVars, loopVars, hbVars, boVars, schedVars, areq>>

\* DLQ.Remove: SREM of the id; DLQ.Retry returns nil
DLQRetrySRem ==
    /\ dreq.at = "srem"
    /\ dlqSet' = dlqSet \ {dreq.task.id}
    /\ dreq' = [at |-> "idle", last |-> "ok"]
    /\ UNCHANGED <<store, msgs, dlqStream, pc, lt, lm, rpc, rbatch, creq, crashes, hist>>
    /\ UNCHANGED <<smVars, loopVars, hbVars, boVars, schedVars, areq>>

AdminRetryStep ==
    \/ \E t \in TaskIds : AdminRetryGet(t)
    \/ AdminRetryPut
    \/ AdminRetrySet
    \/ AdminRetryXAdd

DLQRetryStep ==
    \/ \E t \in TaskIds : DLQRetryNotFound(t)
    \/ \E t \in TaskIds : DLQRetryList(t)
    \/ DLQRetrySet
    \/ DLQRetryXAdd
    \/ DLQRetryXDel
    \/ DLQRetrySRem

\* ------------------------------------------------------------ environment
\* time passes: a PEL entry reaches claim_min_idle
Tick(i) ==
    /\ i \in 1..Len(msgs)
    /\ msgs[i].st = "pending"
    /\ ~msgs[i].idle
    /\ msgs' = [msgs EXCEPT ![i].idle = TRUE]
    /\ UNCHANGED extVars
    /\ UNCHANGED <<store, dlqStream, dlqSet, pc, lt, lm, rpc, rbatch, creq, crashes, hist>>

\* the process of pool p dies between two store calls and is started again:
\* its fibers lose what they held in memory
Crash(p) ==
    /\ crashes < MaxCrashes
    /\ pc[p] # "idle" \/ rpc[p] # "idle"
    /\ crashes' = crashes + 1
    /\ pc' = [pc EXCEPT ![p] = "idle"]
    /\ lt' = [lt EXCEPT ![p] = NoTask]
    /\ lm' = [lm EXCEPT ![p] = 0]
    /\ rpc' = [rpc EXCEPT ![p] = "idle"]
    /\ rbatch' = [rbatch EXCEPT ![p] = <<>>]
    /\ UNCHANGED extVars
    /\ UNCHANGED <<store, msgs, dlqStream, dlqSet, creq, hist>>

WorkerStep(w) ==
    \/ DequeueBlocking(w)
    \/ LoadAndStart(w)
    \/ PersistRunning(w)
    \/ HandleSuccess(w)
    \/ HandleFailure(w)
    \/ RequeueSet(w)
    \/ RequeueXAdd(w)
    \/ DLQAddStream(w)
    \/ DLQAddSet(w)
    \/ Acknowledge(w)

RecoveryStep(p) ==
    \/ \E i \in 1..MaxMsgs : ClaimOrphan(p, i)
    \/ RecoverSet(p)
    \/ RecoverXAdd(p)
    \/ RecoverAck(p)

\* The worker fibers of every pool and the recovery fibers, with time
\* passing freely: an execution may outlast claim_min_idle.
Next ==
    \/ \E t \in TaskIds : Submit(t)
    \/ \E w \in Pools : WorkerStep(w)
    \/ \E p \in RecoveryPools : RecoveryStep(p)
    \/ \E i \in 1..MaxMsgs : Tick(i)

Spec == Init /\ [][Next]_vars

\* One pool, its worker fiber and its recovery fiber, whose process may die
\* between any two store calls and be started again.
NextCrash ==
    \/ \E t \in TaskIds : Submit(t)
    \/ \E w \in RecoveryPools : WorkerStep(w)
    \/ \E p \in RecoveryPools : RecoveryStep(p)
    \/ \E i \in 1..MaxMsgs : Tick(i)
    \/ \E p \in RecoveryPools : Crash(p)

SpecCrash == Init /\ [][NextCrash]_vars

\* One pool and the API's Cancel requests.
NextCancel ==
    \/ \E t \in TaskIds : Submit(t)
    \/ \E t \in TaskIds : CancelGet(t)
    \/ CancelPut
    \/ \E w \in RecoveryPools : WorkerStep(w)
    \/ \E p \in RecoveryPools : RecoveryStep(p)
    \/ \E i \in 1..MaxMsgs : Tick(i)

SpecCancel == Init /\ [][NextCancel]_vars

\* The worker fibers alone: no crash, no manual intervention, and every
\* settlement finishes before its message reaches claim_min_idle, so that
\* recovery finds nothing to reclaim.
NextSeq ==
    \/ \E t \in TaskIds : Submit(t)
    \/ \E w \in Pools : WorkerStep(w)

SpecSeq == Init /\ [][NextSeq]_vars

\* Every pool runs its worker fiber and its recovery fiber, and a pool's
\* process may die.  A settlement and a recovery pass take less than
\* claim_min_idle: only a PEL entry that no running fiber holds grows idle.
Held(i) ==
    \/ \E w \in Pools : lm[w] = i
    \/ \E p \in Pools : \E k \in 1..Len(rbatch[p]) : rbatch[p][k].m = i

TickOrphan(i) == ~Held(i) /\ Tick(i)

NextOrphan ==
    \/ \E t \in TaskIds : Submit(t)
    \/ \E w \in Pools : WorkerStep(w)
    \/ \E p \in Pools : RecoveryStep(p)
    \/ \E i \in 1..MaxMsgs : TickOrphan(i)
    \/ \E p \in Pools : Crash(p)

\* The worker loop and the recovery ticker keep running, and time passes.
FairOrphan ==
    /\ \A w \in Pools : WF_vars(WorkerStep(w))
    /\ \A p \in Pools : WF_vars(RecoveryStep(p))
    /\ \A i \in 1..MaxMsgs : WF_vars(TickOrphan(i))

SpecOrphan == Init /\ [][NextOrphan]_vars /\ FairOrphan

\* Manual requeue applied call after call: an operator request starts when
\* no worker fiber is inside processNextTask and no other request is being
\* served, and runs to its end before anything else moves.  There is no
\* crash, and no message reaches claim_min_idle.
\* ---------------------------------------------------------------- scheduler
\* handlers.Create with a scheduled_at in the future, first store call of
\* ScheduleTask: SET task:{id} with state scheduled
ScheduleSet(t) ==
    /\ sreq = 0
    /\ store[t] = NoTask
    /\ \E prio \in SubmitPriorities, m \in SubmitRetries :
          store' = [store EXCEPT ![t] = [New(t, prio, m) EXCEPT !.state = StateScheduled]]
    /\ sreq' = t
    /\ UNCHANGED <<smVars, loopVars, hbVars, boVars, manualVars, zset, lock, sched, scrashes>>
    /\ UNCHANGED <<msgs, dlqStream, dlqSet, pc, lt, lm, rpc, rbatch, creq, crashes, hist>>

\* ScheduleTask, second store call: ZADD tasks:scheduled, score in the future
ScheduleZAdd ==
    /\ sreq # 0
    /\ zset' = [zset EXCEPT ![sreq] = "future"]
    /\ sreq' = 0
    /\ UNCHANGED <<smVars, loopVars, hbVars, boVars, manualVars, lock, sched, scrashes>>
    /\ UNCHANGED queueVars

\* time passes: the score of an entry is now <= now
ClockDue(t) ==
    /\ zset[t] = "future"
    /\ zset' = [zset EXCEPT ![t] = "due"]
    /\ UNCHANGED <<smVars, loopVars, hbVars, boVars, manualVars, lock, sched, sreq, scrashes>>
    /\ UNCHANGED queueVars

\* time passes: scheduler:lock reaches its TTL and the store deletes it
LockExpire ==
    /\ lock
    /\ lock' = FALSE
    /\ UNCHANGED <<smVars, loopVars, hbVars, boVars, manualVars, zset, sched, sreq, scrashes>>
    /\ UNCHANGED queueVars

\* ZRANGEBYSCORE tasks:scheduled -inf now: the due ids, in id order
RECURSIVE DueFrom(_, _)
DueFrom(z, t) ==
    IF t > NumTasks THEN <<>>
    ELSE (IF z[t] = "due" THEN <<t>> ELSE <<>>) \o DueFrom(z, t + 1)

ZRangeByScore(z) == DueFrom(z, 1)

\* processDueTasks: SETNX scheduler:lock with the TTL.  When the key exists
\* the tick is skipped, which changes nothing.
SchedSetNX(s) ==
    /\ sched[s].at = "idle"
    /\ ~lock
    /\ lock' = TRUE
    /\ sched' = [sched EXCEPT ![s].at = "locked"]
    /\ UNCHANGED <<smVars, loopVars, hbVars, boVars, manualVars, zset, sreq, scrashes>>
    /\ UNCHANGED queueVars

\* processDueTasks: ZRANGEBYSCORE; with no due task the pass returns
SchedRange(s) ==
    /\ sched[s].at = "locked"
    /\ LET ids == ZRangeByScore(zset)
       IN  sched' = [sched EXCEPT ![s] =
                        [at |-> IF ids = <<>> THEN "unlock" ELSE "get",
                         batch |-> ids, task |-> NoTask]]
    /\ UNCHANGED <<smVars, loopVars, hbVars, boVars, manualVars, zset, lock, sreq, scrashes>>
    /\ UNCHANGED queueVars

\* activateTask: GetTask, the state check and Transition(pending)
SchedGet(s) ==
    /\ sched[s].at = "get"
    /\ LET t == store[Head(sched[s].batch)]
       IN  IF t = NoTask \/ t.state # StateScheduled \/ ~Transition(t, StatePending).ok
           THEN sched' = [sched EXCEPT ![s].at = "drop"]
           ELSE sched' = [sched EXCEPT ![s].at = "put",
                                       ![s].task = Transition(t, StatePending).task]
    /\ UNCHANGED <<smVars, loopVars, hbVars, boVars, manualVars, zset, lock, sreq, scrashes>>
    /\ UNCHANGED queueVars

\* what processDueTasks does after activateTask returns: the next id, or
\* the deferred DEL
AfterActivate(c) ==
    [at |-> IF Len(c.batch) > 1 THEN "get" ELSE "unlock",
     batch |-> Tail(c.batch), task |-> NoTask]

\* activateTask on a task that is absent or not scheduled: ZREM, no XADD
SchedDrop(s) ==
    /\ sched[s].at = "drop"
    /\ zset' = [zset EXCEPT ![Head(sched[s].batch)] = "absent"]
    /\ sched' = [sched EXCEPT ![s] = AfterActivate(sched[s])]
    /\ UNCHANGED <<smVars, loopVars, hbVars, boVars, manualVars, lock, sreq, scrashes>>
    /\ UNCHANGED queueVars

\* activateTask: UpdateTask writes the whole record
SchedPut(s) ==
    /\ sched[s].at = "put"
    /\ store' = [store EXCEPT ![sched[s].task.id] = sched[s].task]
    /\ sched' = [sched EXCEPT ![s].at = "xadd"]
    /\ UNCHANGED <<smVars, loopVars, hbVars, boVars, manualVars, zset, lock, sreq, scrashes>>
    /\ UNCHANGED <<msgs, dlqStream, dlqSet, pc, lt, lm, rpc, rbatch, creq, crashes, hist>>

\* activateTask: XADD to the stream of the task's priority
SchedXAdd(s) ==
    /\ sched[s].at = "xadd"
    /\ Len(msgs) < MaxMsgs
    /\ msgs' = XAdd(msgs, sched[s].task)
    /\ sched' = [sched EXCEPT ![s].at = "zrem"]
    /\ UNCHANGED <<smVars, loopVars, hbVars, boVars, manualVars, zset, lock, sreq, scrashes>>
    /\ UNCHANGED <<store, dlqStream, dlqSet, pc, lt, lm, rpc, rbatch, creq, crashes, hist>>

\* activateTask: ZREM tasks:scheduled
SchedZRem(s) ==
    /\ sched[s].at = "zrem"
    /\ zset' = [zset EXCEPT ![Head(sched[s].batch)] = "absent"]
    /\ sched' = [sched EXCEPT ![s] = AfterActivate(sched[s])]
    /\ UNCHANGED <<smVars, loopVars, hbVars, boVars, manualVars, lock, sreq, scrashes>>
    /\ UNCHANGED queueVars

\* processDueTasks returns: the deferred DEL scheduler:lock, whoever set it
SchedUnlock(s) ==
    /\ sched[s].at = "unlock"
    /\ lock' = FALSE
    /\ sched' = [sched EXCEPT ![s] = SchedIdle]
    /\ UNCHANGED <<smVars, loopVars, hbVars, boVars, manualVars, zset, sreq, scrashes>>
    /\ UNCHANGED queueVars

\* the process of scheduler s dies between two store calls and is started
\* again: the pass is lost, the lock stays until its TTL
SchedCrash(s) ==
    /\ scrashes < MaxSchedCrashes
    /\ sched[s].at # "idle"
    /\ scrashes' = scrashes + 1
    /\ sched' = [sched EXCEPT ![s] = SchedIdle]
    /\ UNCHANGED <<smVars, loopVars, hbVars, boVars, manualVars, zset, lock, sreq>>
    /\ UNCHANGED queueVars

SchedStep(s) ==
    \/ SchedSetNX(s)
    \/ SchedRange(s)
    \/ SchedGet(s)
    \/ SchedDrop(s)
    \/ SchedPut(s)
    \/ SchedXAdd(s)
    \/ SchedZRem(s)
    \/ SchedUnlock(s)

\* ---------------------------------------------------------- the worker loop
\* The loop of Pool.worker around processNextTask, for the Concurrency
\* goroutines of one pool.  processNextTask is seen from the loop: it
\* returns without a task (timeout or error) or runs a handler and settles.

\* the send on concurrencySem, a channel of capacity Concurrency
CanAcquire(n) == n < Concurrency

Acquire(n) == n + 1

\* a receive that takes nothing off the channel
ReleaseNone(n) == n

\* the receive from concurrencySem
Release(n) == n - 1

\* Pool.Start: heartbeat.Start (spawns heartbeatLoop, then register: SADD
\* and SET of the info key), then spawns the worker goroutines and the
\* recovery goroutine
PoolStart ==
    /\ pstate = StateIdle
    /\ ~stopped
    /\ pstate' = StateBusy
    /\ hb' = [hb EXCEPT !.at = "send"]
    /\ activeSet' = activeSet \cup {PoolId}
    /\ infoKey' = [ttl |-> InfoTTL, data |-> hb.info]
    /\ wpc' = [f \in Fibers |-> "top"]
    /\ rloop' = "ticker"
    /\ began' = [f \in Fibers |-> [local |-> FALSE, remote |-> rpaused, any |-> rpaused]]
    /\ UNCHANGED <<sem, stopped, rpaused, execErr, stopAt, hbKey, listed>>
    /\ UNCHANGED <<queueVars, smVars, manualVars, schedVars, boVars>>

\* Pool.Stop, up to the wait: sets the state and closes stopCh
PoolStop ==
    /\ pstate # StateIdle
    /\ ~stopped
    /\ pstate' = StateShuttingDown
    /\ stopped' = TRUE
    /\ stopAt' = "waiting"
    /\ began' = [f \in Fibers |->
                    [began[f] EXCEPT !.local = FALSE, !.any = @ /\ rpaused]]
    /\ UNCHANGED <<sem, wpc, rpaused, execErr, rloop, hbVars>>
    /\ UNCHANGED <<queueVars, smVars, manualVars, schedVars, boVars>>

\* Pool.Pause
Pause ==
    /\ pstate = StateBusy
    /\ pstate' = StatePaused
    /\ UNCHANGED <<sem, wpc, stopped, rpaused, began, execErr, rloop, stopAt, hbVars>>
    /\ UNCHANGED <<queueVars, smVars, manualVars, schedVars, boVars>>

\* Pool.Resume: closes resumeCh, which wakes the goroutines receiving from
\* it, and replaces it.  A goroutine that has read the state and not yet
\* entered its select reads p.resumeCh without the lock: it gets the closed
\* channel and goes on, or the new one and blocks.
Resume ==
    /\ pstate = StatePaused
    /\ pstate' = StateBusy
    /\ \E old \in SUBSET {f \in Fibers : wpc[f] = "select"} :
          wpc' = [f \in Fibers |->
                     IF wpc[f] = "wait" \/ f \in old THEN "remote" ELSE wpc[f]]
    /\ began' = [f \in Fibers |->
                    [began[f] EXCEPT !.local = FALSE, !.any = @ /\ rpaused]]
    /\ UNCHANGED <<sem, stopped, rpaused, execErr, rloop, stopAt, hbVars>>
    /\ UNCHANGED <<queueVars, smVars, manualVars, schedVars, boVars>>

\* the admin API sets or deletes the pause key of the pool
SetRemotePause(b) ==
    /\ rpaused # b
    /\ rpaused' = b
    /\ began' = [f \in Fibers |->
                    [began[f] EXCEPT !.remote = @ /\ b,
                                     !.any = @ /\ (b \/ pstate = StatePaused)]]
    /\ UNCHANGED <<sem, wpc, pstate, stopped, execErr, rloop, stopAt, hbVars>>
    /\ UNCHANGED <<queueVars, smVars, manualVars, schedVars, boVars>>

\* A goroutine moves on; an iteration begins when it reaches the top of
\* the loop.
LoopGoto(f, at) ==
    /\ wpc' = [wpc EXCEPT ![f] = at]
    /\ began' = IF at = "top"
                THEN [began EXCEPT ![f] = [local |-> pstate = StatePaused,
                                           remote |-> rpaused,
                                           any |-> pstate = StatePaused \/ rpaused]]
                ELSE began
    /\ UNCHANGED <<pstate, stopped, rpaused, rloop, stopAt, hbVars>>
    /\ UNCHANGED <<queueVars, smVars, manualVars, schedVars, boVars>>

\* top of the loop: the non-blocking check of stopCh
LoopCheckStop(f) ==
    /\ wpc[f] = "top"
    /\ LoopGoto(f, IF stopped THEN "done" ELSE "local")
    /\ UNCHANGED <<sem, execErr>>

\* the check of the local pause
LoopCheckLocal(f) ==
    /\ wpc[f] = "local"
    /\ LoopGoto(f, IF pstate = StatePaused THEN "select" ELSE "remote")
    /\ UNCHANGED <<sem, execErr>>

\* the select on resumeCh and stopCh, entered after the state was read
LoopSelect(f) ==
    /\ wpc[f] = "select"
    /\ LoopGoto(f, IF stopped THEN "done" ELSE "wait")
    /\ UNCHANGED <<sem, execErr>>

\* a select without the stopCh case
NoStopCase(closed) == FALSE

\* the stopCh case of a select: ready once the channel is closed
StopCase(closed) == closed

\* a goroutine blocked on resumeCh sees stopCh closed
LoopWaitStop(f) ==
    /\ wpc[f] = "wait"
    /\ StopCase(stopped)
    /\ LoopGoto(f, "done")
    /\ UNCHANGED <<sem, execErr>>

\* a check of the pause key that never finds it
NeverPaused(key) == FALSE

\* IsWorkerPaused: EXISTS worker:{id}:paused
IsWorkerPaused(key) == key

\* the check of the remote pause
LoopCheckRemote(f) ==
    /\ wpc[f] = "remote"
    /\ LoopGoto(f, IF IsWorkerPaused(rpaused) THEN "sleep" ELSE "acquire")
    /\ UNCHANGED <<sem, execErr>>

\* the one-second wait of a remotely paused pool, then continue
LoopSleep(f) ==
    /\ wpc[f] = "sleep"
    /\ \/ LoopGoto(f, "top")
       \/ stopped /\ LoopGoto(f, "done")
    /\ UNCHANGED <<sem, execErr>>

\* the select that acquires a slot of the gate
LoopAcquire(f) ==
    /\ wpc[f] = "acquire"
    /\ \/ /\ CanAcquire(sem)
          /\ sem' = Acquire(sem)
          /\ LoopGoto(f, "claim")
       \/ /\ stopped
          /\ UNCHANGED sem
          /\ LoopGoto(f, "done")
    /\ UNCHANGED execErr

\* processNextTask, DequeueBlocking: an error, no task, or a task
LoopClaim(f) ==
    /\ wpc[f] = "claim"
    /\ \E got \in BOOLEAN : LoopGoto(f, IF got THEN "exec" ELSE "release")
    /\ UNCHANGED <<sem, execErr>>

\* What the handler registered for the task's type does when it is called:
\* it returns a result, returns an error of its own, returns the error of
\* its context (deadline exceeded, cancelled), or panics; "missing" is a
\* type without a handler.
Handlers == {"ok", "error", "deadline", "canceled", "panic", "missing"}

ErrHandlerNotFound == "handler not found for task type"
ErrTaskTimeout == "task execution timed out"
ErrTaskCanceled == "task execution canceled"
ErrPanicked == "handler panicked"

\* the body of Execute: the lookup, the call and the mapping of the
\* context's errors.  panic = TRUE is a panic that unwinds the body.
ExecuteBody(h) ==
    CASE h = "missing"  -> [panic |-> FALSE, err |-> ErrHandlerNotFound]
      [] h = "panic"    -> [panic |-> TRUE, err |-> NoError]
      [] h = "deadline" -> [panic |-> FALSE, err |-> ErrTaskTimeout]
      [] h = "canceled" -> [panic |-> FALSE, err |-> ErrTaskCanceled]
      [] h = "error"    -> [panic |-> FALSE, err |-> Boom]
      [] OTHER          -> [panic |-> FALSE, err |-> NoError]

\* a deferred function that does not call recover
NoRecover(r) == r

\* the deferred function of Execute: a panic becomes the returned error
Recover(r) == IF r.panic THEN [panic |-> FALSE, err |-> ErrPanicked] ELSE r

\* Executor.Execute
Execute(h) == Recover(ExecuteBody(h))

\* processNextTask after DequeueBlocking returned a task: the early return
\* when Start is rejected, or Execute and then handleTaskSuccess or
\* handleTaskFailure.  A panic that leaves Execute ends the goroutine.
LoopExecute(f) ==
    /\ wpc[f] = "exec"
    /\ \/ /\ LoopGoto(f, "release")
          /\ UNCHANGED execErr
       \/ \E h \in Handlers :
             LET r == Execute(h)
             IN  /\ LoopGoto(f, IF r.panic THEN "dead" ELSE "release")
                 /\ execErr' = [execErr EXCEPT ![f] = r.err]
    /\ UNCHANGED sem

\* the end of the iteration: the slot goes back
LoopRelease(f) ==
    /\ wpc[f] = "release"
    /\ sem' = Release(sem)
    /\ execErr' = [execErr EXCEPT ![f] = NotRun]
    /\ LoopGoto(f, "top")

LoopStep(f) ==
    \/ LoopCheckStop(f)
    \/ LoopCheckLocal(f)
    \/ LoopSelect(f)
    \/ LoopWaitStop(f)
    \/ LoopCheckRemote(f)
    \/ LoopSleep(f)
    \/ LoopAcquire(f)
    \/ LoopClaim(f)
    \/ LoopExecute(f)
    \/ LoopRelease(f)

NextLoop ==
    \/ PoolStart
    \/ PoolStop
    \/ Pause
    \/ Resume
    \/ \E b \in BOOLEAN : SetRemotePause(b)
    \/ \E f \in Fibers : LoopStep(f)

SpecLoop == Init /\ [][NextLoop]_vars

\* ------------------------------------------- heartbeat, recovery loop, Stop
\* sendHeartbeat, first store call: SET of the heartbeat key with the timeout
HbSetKey ==
    /\ hb.at = "send"
    /\ hbKey' = HeartbeatTimeout
    /\ hb' = [hb EXCEPT !.at = "info"]
    /\ UNCHANGED <<infoKey, activeSet, listed>>
    /\ UNCHANGED <<queueVars, smVars, manualVars, schedVars, loopVars, boVars>>

\* sendHeartbeat, second store call: SET of the info key with h.info
HbSetInfo ==
    /\ hb.at = "info"
    /\ infoKey' = [ttl |-> InfoTTL, data |-> hb.info]
    /\ hb' = [hb EXCEPT !.at = "sadd"]
    /\ UNCHANGED <<hbKey, activeSet, listed>>
    /\ UNCHANGED <<queueVars, smVars, manualVars, schedVars, loopVars, boVars>>

\* sendHeartbeat, third store call: SADD workers:active
HbSAdd ==
    /\ hb.at = "sadd"
    /\ activeSet' = activeSet \cup {PoolId}
    /\ hb' = [hb EXCEPT !.at = "ticker"]
    /\ UNCHANGED <<hbKey, infoKey, listed>>
    /\ UNCHANGED <<queueVars, smVars, manualVars, schedVars, loopVars, boVars>>

\* heartbeatLoop: the ticker fires
HbTick ==
    /\ hb.at = "ticker"
    /\ hb' = [hb EXCEPT !.at = "send"]
    /\ UNCHANGED <<hbKey, infoKey, activeSet, listed>>
    /\ UNCHANGED <<queueVars, smVars, manualVars, schedVars, loopVars, boVars>>

\* heartbeatLoop: the select sees h.stopCh closed and the loop returns
HbExit ==
    /\ hb.at = "ticker"
    /\ hb.stopCh
    /\ hb' = [hb EXCEPT !.at = "exited"]
    /\ UNCHANGED <<hbKey, infoKey, activeSet, listed>>
    /\ UNCHANGED <<queueVars, smVars, manualVars, schedVars, loopVars, boVars>>

HbStep == HbSetKey \/ HbSetInfo \/ HbSAdd \/ HbTick \/ HbExit

\* recoveryLoop: the ticker fires and a recovery pass starts
RecoveryLoopTick ==
    /\ rloop = "ticker"
    /\ rloop' = "pass"
    /\ UNCHANGED <<sem, wpc, pstate, stopped, rpaused, began, execErr, stopAt>>
    /\ UNCHANGED <<queueVars, smVars, manualVars, schedVars, hbVars, boVars>>

\* recoveryLoop: recoverOrphanedTasks returns
RecoveryLoopPass ==
    /\ rloop = "pass"
    /\ rloop' = "ticker"
    /\ UNCHANGED <<sem, wpc, pstate, stopped, rpaused, began, execErr, stopAt>>
    /\ UNCHANGED <<queueVars, smVars, manualVars, schedVars, hbVars, boVars>>

\* recoveryLoop: the select sees stopCh closed and the loop returns
RecoveryLoopExit ==
    /\ rloop = "ticker"
    /\ stopped
    /\ rloop' = "done"
    /\ UNCHANGED <<sem, wpc, pstate, stopped, rpaused, began, execErr, stopAt>>
    /\ UNCHANGED <<queueVars, smVars, manualVars, schedVars, hbVars, boVars>>

RecoveryLoopStep == RecoveryLoopTick \/ RecoveryLoopPass \/ RecoveryLoopExit

\* p.wg: every worker goroutine and the recovery goroutine has returned
AllExited == (\A f \in Fibers : wpc[f] = "done") /\ rloop = "done"

StopGoto(at) ==
    /\ stopAt' = at
    /\ UNCHANGED <<sem, wpc, pstate, stopped, rpaused, began, execErr, rloop>>
    /\ UNCHANGED <<queueVars, smVars, manualVars, schedVars, boVars>>

\* Pool.Stop: the select returns because wg.Wait has
StopWaitDone ==
    /\ stopAt = "waiting"
    /\ AllExited
    /\ StopGoto("hbclose")
    /\ UNCHANGED hbVars

\* Pool.Stop: the select returns on ShutdownTimeout or on the caller's ctx
StopTimeout ==
    /\ stopAt = "waiting"
    /\ ~AllExited
    /\ StopGoto("hbclose")
    /\ UNCHANGED hbVars

\* Heartbeat.Stop: close(h.stopCh)
HbStopClose ==
    /\ stopAt = "hbclose"
    /\ hb' = [hb EXCEPT !.stopCh = TRUE]
    /\ StopGoto("hbwait")
    /\ UNCHANGED <<hbKey, infoKey, activeSet, listed>>

\* a wait that does not wait
WgNoWait(h) == TRUE

\* Heartbeat.Stop: h.wg.Wait returns once heartbeatLoop has
WgWait(h) == h.at = "exited"

\* Heartbeat.Stop, deregister: SREM workers:active
HbStopSRem ==
    /\ stopAt = "hbwait"
    /\ WgWait(hb)
    /\ activeSet' = activeSet \ {PoolId}
    /\ StopGoto("hbdel")
    /\ UNCHANGED <<hbKey, infoKey, hb, listed>>

\* Heartbeat.Stop, deregister: DEL of the heartbeat and info keys; Stop returns
HbStopDel ==
    /\ stopAt = "hbdel"
    /\ hbKey' = 0
    /\ infoKey' = [ttl |-> 0, data |-> NoInfo]
    /\ StopGoto("returned")
    /\ UNCHANGED <<activeSet, hb, listed>>

StopStep == StopWaitDone \/ StopTimeout \/ HbStopClose \/ HbStopSRem \/ HbStopDel

\* the process of the pool dies: every goroutine is gone, the keys stay
ProcessCrash ==
    /\ hb.at \notin {"unstarted", "dead", "exited"}
    /\ stopAt = "none"
    /\ hb' = [hb EXCEPT !.at = "dead"]
    /\ wpc' = [f \in Fibers |-> "dead"]
    /\ rloop' = "dead"
    /\ sem' = 0
    /\ stopAt' = "dead"
    /\ execErr' = [f \in Fibers |-> NotRun]
    /\ UNCHANGED <<pstate, stopped, rpaused, began, hbKey, infoKey, activeSet, listed>>
    /\ UNCHANGED <<queueVars, smVars, manualVars, schedVars, boVars>>

Elapse(n) == IF n > 0 THEN n - 1 ELSE 0

\* time passes with no heartbeat sent: the keys come closer to their expiry
\* and an expired key is gone.  A running heartbeatLoop renews the keys
\* every interval, which is shorter than the timeout.
KeyExpire ==
    /\ hb.at \in {"dead", "exited"}
    /\ hbKey > 0 \/ infoKey.ttl > 0
    /\ hbKey' = Elapse(hbKey)
    /\ infoKey' = IF infoKey.ttl > 1
                  THEN [infoKey EXCEPT !.ttl = @ - 1]
                  ELSE [ttl |-> 0, data |-> NoInfo]
    /\ UNCHANGED <<activeSet, hb, listed>>
    /\ UNCHANGED <<queueVars, smVars, manualVars, schedVars, loopVars, boVars>>

\* IsWorkerAlive: EXISTS of the heartbeat key
IsWorkerAlive(key) == key > 0

\* GetActiveWorkers: SMEMBERS, then per id GET of the info key; an id whose
\* info key is gone is removed from the set and left out of the reply
GetActiveWorkers ==
    /\ LET found == {w \in activeSet : infoKey.ttl > 0}
       IN  /\ listed' = [gen |-> 1 - listed.gen, workers |-> found]
           /\ activeSet' = found
    /\ UNCHANGED <<hbKey, infoKey, hb>>
    /\ UNCHANGED <<queueVars, smVars, manualVars, schedVars, loopVars, boVars>>

\* One pool from Start to the return of Stop: its worker goroutines, its
\* recovery goroutine, its heartbeat, Pause and Resume, the remote pause
\* flag, and readers of the worker registry.
NextPool ==
    \/ NextLoop
    \/ HbStep
    \/ RecoveryLoopStep
    \/ StopStep
    \/ KeyExpire
    \/ GetActiveWorkers

SpecPool == Init /\ [][NextPool]_vars

\* The pool and its heartbeat without the registry.  Every goroutine that
\* can take a step does, and a select whose stopCh case is ready again and
\* again takes it: the tickers are not always ready.
NextShutdown ==
    \/ NextLoop
    \/ HbStep
    \/ RecoveryLoopStep
    \/ StopStep

FairShutdown ==
    /\ \A f \in Fibers : WF_vars(LoopStep(f))
    /\ WF_vars(RecoveryLoopStep)
    /\ SF_vars(RecoveryLoopExit)
    /\ WF_vars(HbStep)
    /\ SF_vars(HbExit)
    /\ WF_vars(StopStep)

SpecShutdown == Init /\ [][NextShutdown]_vars /\ FairShutdown

\* The same, and the process may die.
NextRegistry ==
    \/ NextPool
    \/ ProcessCrash

SpecRegistry == Init /\ [][NextRegistry]_vars

\* an id that a submission has used: task ids are fresh UUIDs
Used(t) == \E i \in 1..Len(msgs) : msgs[i].task = t

\* One pool's worker fiber, the API's Submit and Cancel, the expiry of
\* records under the retention TTL, and reads of a record that fail.
NextGetTask ==
    \/ \E t \in TaskIds : ~Used(t) /\ Submit(t)
    \/ \E t \in TaskIds : CancelGet(t)
    \/ CancelPut
    \/ \E w \in RecoveryPools : WorkerStep(w)
    \/ \E w \in RecoveryPools : GetTaskFails(w)
    \/ \E t \in TaskIds : RecordExpire(t)

SpecGetTask == Init /\ [][NextGetTask]_vars

\* One pool that keeps running its worker fiber and its recovery fiber, the
\* API's Submit and Cancel, and the expiry of records under the retention
\* TTL.  Store calls succeed and nothing crashes; a PEL entry that no
\* running fiber holds grows idle.
NextPending ==
    \/ \E t \in TaskIds : ~Used(t) /\ Submit(t)
    \/ \E t \in TaskIds : CancelGet(t)
    \/ CancelPut
    \/ \E w \in RecoveryPools : WorkerStep(w)
    \/ \E p \in RecoveryPools : RecoveryStep(p)
    \/ \E i \in 1..MaxMsgs : TickOrphan(i)
    \/ \E t \in TaskIds : RecordExpire(t)

FairPending ==
    /\ \A w \in RecoveryPools : WF_vars(WorkerStep(w))
    /\ \A p \in RecoveryPools : WF_vars(RecoveryStep(p))
    /\ \A i \in 1..MaxMsgs : WF_vars(TickOrphan(i))

SpecPending == Init /\ [][NextPending]_vars /\ FairPending

NoManualCall == areq.at = "idle" /\ dreq.at = "idle"

WorkersIdle == \A w \in Pools : pc[w] = "idle"

NextManual ==
    \/ NoManualCall /\ \E t \in TaskIds : Submit(t)
    \/ NoManualCall /\ \E w \in RecoveryPools : WorkerStep(w)
    \/ WorkersIdle /\ dreq.at = "idle" /\ AdminRetryStep
    \/ WorkersIdle /\ areq.at = "idle" /\ DLQRetryStep

SpecManual == Init /\ [][NextManual]_vars

\* Manual requeue interleaved, store call by store call, with a worker fiber
\* and a recovery fiber, messages growing idle at any time.  The operator
\* sends one request at a time.
NextRequeue ==
    \/ \E t \in TaskIds : Submit(t)
    \/ \E w \in RecoveryPools : WorkerStep(w)
    \/ \E p \in RecoveryPools : RecoveryStep(p)
    \/ \E i \in 1..MaxMsgs : Tick(i)
    \/ dreq.at = "idle" /\ AdminRetryStep
    \/ areq.at = "idle" /\ DLQRetryStep

SpecRequeue == Init /\ [][NextRequeue]_vars

\* The API server and the scheduler instances, without a worker pool: tasks
\* are scheduled, may be cancelled, become due and are promoted.  A pass may
\* outlast the lock's TTL and a scheduler process may die.
NextSched ==
    \/ \E t \in TaskIds : ScheduleSet(t)
    \/ ScheduleZAdd
    \/ \E t \in TaskIds : ClockDue(t)
    \/ \E t \in TaskIds : CancelGet(t)
    \/ CancelPut
    \/ \E s \in Schedulers : SchedStep(s)
    \/ LockExpire
    \/ \E s \in Schedulers : SchedCrash(s)

SpecSched == Init /\ [][NextSched]_vars

\* The same without Cancel.  The scheduler loops keep ticking, Schedule
\* returns, and time passes.
NextPromote ==
    \/ \E t \in TaskIds : ScheduleSet(t)
    \/ ScheduleZAdd
    \/ \E t \in TaskIds : ClockDue(t)
    \/ \E s \in Schedulers : SchedStep(s)
    \/ LockExpire
    \/ \E s \in Schedulers : SchedCrash(s)

FairPromote ==
    /\ WF_vars(ScheduleZAdd)
    /\ \A t \in 1..NumTasks : WF_vars(ClockDue(t))
    /\ \A s \in Schedulers : WF_vars(SchedStep(s))
    /\ WF_vars(LockExpire)

SpecPromote == Init /\ [][NextPromote]_vars /\ FairPromote

\* ----------------------------------------------------------- capacity check
\* GetQueueDepth: per stream, the Pending count of the consumer group as
\* XINFO GROUPS reports it -- the size of the PEL -- summed by the caller
GetQueueDepth(ms) == Cardinality({i \in 1..Len(ms) : ms[i].st = "pending"})

\* handlers.Create: the backpressure test
AtCapacity(ms) == MaxQueueSize > 0 /\ GetQueueDepth(ms) >= MaxQueueSize

\* handlers.Create with max_queue_size set: at capacity the request is
\* answered 503 and nothing changes; otherwise the task is enqueued
Create(t) ==
    /\ ~AtCapacity(msgs)
    /\ Submit(t)

\* An API server with max_queue_size = MaxQueueSize, clients that create up
\* to NumCreates tasks, and one worker.
InitCapacity ==
    /\ InitExt
    /\ store = [t \in 1..NumCreates |-> NoTask]
    /\ msgs = <<>>
    /\ dlqStream = <<>>
    /\ dlqSet = {}
    /\ pc = [p \in Pools |-> "idle"]
    /\ lt = [p \in Pools |-> NoTask]
    /\ lm = [p \in Pools |-> 0]
    /\ rpc = [p \in Pools |-> "idle"]
    /\ rbatch = [p \in Pools |-> <<>>]
    /\ creq = NoTask
    /\ crashes = 0
    /\ hist = [t \in 1..NumCreates |-> NoHist]

NextCapacity ==
    \/ \E t \in TaskIds : Create(t)
    \/ WorkerStep(1)

SpecCapacity == InitCapacity /\ [][NextCapacity]_vars

\* ------------------------------------------------------------------ backoff
RECURSIVE Pow(_, _)
Pow(b, e) == IF e = 0 THEN 1 ELSE b * Pow(b, e - 1)

\* a cap that does not cap
Uncapped(b, mx) == b

\* if backoff > MaxBackoff { backoff = MaxBackoff }
Capped(b, mx) == IF b > mx THEN mx ELSE b

\* InitialBackoff * BackoffFactor^attempt, capped at MaxBackoff
BaseBackoff(p, attempt) == Capped(p.initial * Pow(p.factor, attempt), p.max)

\* time.Duration(x) of a float: the fraction is dropped.  x is given as a
\* number of 1/(JitterScale*JitterScale) of the duration unit.
Truncate(x) ==
    IF x >= 0 THEN x \div (JitterScale * JitterScale)
    ELSE 0 - ((0 - x) \div (JitterScale * JitterScale))

\* CalculateBackoff.  draw is rand.Float64()*2 - 1 in units of 1/JitterScale.
CalculateBackoff(p, attempt, draw) ==
    IF attempt <= 0 THEN p.initial
    ELSE LET base == BaseBackoff(p, attempt) * JitterScale * JitterScale
             jitter == IF p.jitter > 0
                       THEN BaseBackoff(p, attempt) * p.jitter * draw
                       ELSE 0
         IN  IF base + jitter < 0 THEN p.initial ELSE Truncate(base + jitter)

\* the policies a caller may configure: max_backoff >= initial_backoff,
\* backoff_factor >= 1, jitter_factor in [0, 1]
Policies ==
    [initial : {10, 20}, max : {20, 40, 3000}, factor : {1, 2, 3},
     jitter : {0, 1, 5, JitterScale}]

\* rand.Float64() is in [0, 1): the draw is in [-1, 1)
Draws == (0 - JitterScale)..(JitterScale - 1)

InitBackoffCalls ==
    /\ InitQueue
    /\ InitSM
    /\ InitManual
    /\ InitSched
    /\ InitLoop
    /\ InitHeartbeat
    /\ \E p \in Policies : bo = [policy |-> p] @@ NoBackoff

\* a call of CalculateBackoff(attempt) on the caller's policy
BackoffCall(attempt, draw) ==
    /\ bo' = [bo EXCEPT !.attempt = attempt, !.draw = draw,
                        !.reply = CalculateBackoff(bo.policy, attempt, draw)]
    /\ UNCHANGED <<queueVars, smVars, manualVars, schedVars, loopVars, hbVars>>

NextBackoff == \E attempt \in 1..MaxBackoffAttempt, draw \in Draws : BackoffCall(attempt, draw)

SpecBackoff == InitBackoffCalls /\ [][NextBackoff]_vars

\* -------------------------------------------------------------- store errors
\* retry branch, Enqueue's SET of the record returns an error: Enqueue
\* returns it, handleTaskFailure logs it and goes on to Acknowledge
RequeueSetFails(w) ==
    /\ pc[w] = "rq_set"
    /\ lt' = [lt EXCEPT ![w] = PrepareForRequeue(lt[w])]
    /\ pc' = [pc EXCEPT ![w] = "rq_ack"]
    /\ UNCHANGED extVars
    /\ UNCHANGED <<store, msgs, dlqStream, dlqSet, lm, rpc, rbatch, creq, crashes, hist>>

\* retry branch, Enqueue's XADD returns an error: Enqueue deletes the task
\* key and returns the error, handleTaskFailure logs it and goes on to
\* Acknowledge
RequeueXAddFails(w) ==
    /\ pc[w] = "rq_xadd"
    /\ store' = [store EXCEPT ![lt[w].id] = NoTask]
    /\ pc' = [pc EXCEPT ![w] = "rq_ack"]
    /\ UNCHANGED extVars
    /\ UNCHANGED <<msgs, dlqStream, dlqSet, lt, lm, rpc, rbatch, creq, crashes, hist>>

\* One worker fiber against a store some of whose calls fail in the re-Submit
\* of the retry branch.
NextStoreErr ==
    \/ \E t \in TaskIds : Submit(t)
    \/ WorkerStep(1)
    \/ RequeueSetFails(1)
    \/ RequeueXAddFails(1)

SpecStoreErr == Init /\ [][NextStoreErr]_vars

\* A caller of the state machine: it holds any Task value and applies the
\* operations of the state machine to it, in any order.
SMTasks ==
    [id : {1}, priority : {PriorityNormal}, state : States,
     attempts : 0..MaxRetriesBound, max_retries : SubmitRetries,
     error : {NoError, Boom}, result : {NoResult, ResultR}, worker : {NoWorker, 1}]

InitStateMachine ==
    /\ InitQueue
    /\ smTask \in SMTasks
    /\ smLast = NoCall
    /\ InitManual
    /\ InitSched
    /\ InitLoop
    /\ InitHeartbeat
    /\ InitBackoff

SMCall(name, target, r) ==
    /\ smLast' = [op |-> name, target |-> target, ok |-> r.ok,
                  before |-> smTask, after |-> r.task]
    /\ smTask' = r.task
    /\ UNCHANGED <<queueVars, manualVars, schedVars, loopVars, hbVars, boVars>>

ApplyTransition(target) == SMCall("Transition", target, Transition(smTask, target))

ApplyStart(w) ==
    /\ smTask.attempts < MaxAttempts
    /\ SMCall("Start", StateRunning, Start(smTask, w))

ApplyComplete == SMCall("Complete", StateCompleted, Complete(smTask, ResultR))

ApplyFail == SMCall("Fail", StateFailed, Fail(smTask, Boom))

ApplyRetry ==
    SMCall("Retry", IF CanRetry(smTask) THEN StateRetrying ELSE StateDeadLetter,
           Retry(smTask))

ApplyCancel == SMCall("Cancel", StateCancelled, Cancel(smTask))

ApplyMoveToDLQ == SMCall("MoveToDLQ", StateDeadLetter, MoveToDLQ(smTask))

ApplyRequeue == SMCall("Requeue", StatePending, Requeue(smTask))

NextStateMachine ==
    \/ \E target \in States : ApplyTransition(target)
    \/ \E w \in Pools : ApplyStart(w)
    \/ ApplyComplete
    \/ ApplyFail
    \/ ApplyRetry
    \/ ApplyCancel
    \/ ApplyMoveToDLQ
    \/ ApplyRequeue

SpecStateMachine == InitStateMachine /\ [][NextStateMachine]_vars

\* One worker fiber and NumSeeded tasks already submitted, each to any of
\* the four priority streams, before the worker makes its first call.  The
\* tasks have max_retries = 1: a failed execution is routed to the DLQ.
Seedings == [1..NumSeeded -> AllPriorities]

RECURSIVE Seed(_, _)
Seed(prio, n) ==
    IF n = 0 THEN <<>> ELSE XAdd(Seed(prio, n - 1), New(n, prio[n], 1))

InitPrio ==
    \E prio \in Seedings :
        /\ InitExt
        /\ store = [t \in 1..NumSeeded |-> New(t, prio[t], 1)]
        /\ msgs = Seed(prio, NumSeeded)
        /\ dlqStream = <<>>
        /\ dlqSet = {}
        /\ pc = [w \in Pools |-> "idle"]
        /\ lt = [w \in Pools |-> NoTask]
        /\ lm = [w \in Pools |-> 0]
        /\ rpc = [p \in Pools |-> "idle"]
        /\ rbatch = [p \in Pools |-> <<>>]
        /\ creq = NoTask
        /\ crashes = 0
        /\ hist = [t \in 1..NumSeeded |-> NoHist]

NextPrio ==
    \/ DequeueBlocking(1)
    \/ LoadAndStart(1)
    \/ PersistRunning(1)
    \/ HandleSuccess(1)
    \/ HandleFailure(1)
    \/ DLQAddStream(1)
    \/ DLQAddSet(1)
    \/ Acknowledge(1)

SpecPrio == InitPrio /\ [][NextPrio]_vars

\* ------------------------------------------------------------------ claims
Submitted(t) == store[t] # NoTask

\* a message that references t and is in t's stream undelivered or in the PEL
HasLiveMessage(t) ==
    \E i \in 1..Len(msgs) : msgs[i].task = t /\ msgs[i].st \in {"new", "pending"}

\* the worker fibers whose handler is running on task t
Executing(t) == {w \in Pools : pc[w] = "running" /\ lt[w].id = t}

\* no fiber is between two store calls: nothing in flight can still write
Quiescent ==
    /\ \A w \in Pools : pc[w] = "idle"
    /\ \A p \in Pools : rpc[p] = "idle"
    /\ creq = NoTask

\* C1: at-least-once delivery.  Every submitted task that was never
\* cancelled is either stored as completed, failed or dead_letter, or
\* referenced by a message that is undelivered in its stream or in the PEL.
\* Stated for the states in which the task can be left: those where no
\* fiber is between two store calls.
C1_AtLeastOnce ==
    Quiescent =>
        \A t \in TaskIds :
            (Submitted(t) /\ ~hist[t].cancelled) =>
                \/ store[t].state \in {StateCompleted, StateFailed, StateDeadLetter}
                \/ HasLiveMessage(t)

MsgsOf(t) == {i \in 1..Len(msgs) : msgs[i].task = t}

\* no worker fiber holds a message of t
Settled(t) == \A w \in Pools : lm[w] = 0 \/ msgs[lm[w]].task # t

DLQEntriesOf(t) ==
    {k \in 1..Len(dlqStream) : dlqStream[k].task = t /\ ~dlqStream[k].deleted}

C4_DLQRouting ==
    \A t \in TaskIds :
        (Submitted(t) /\ t \in dlqSet /\ Settled(t)) =>
            /\ store[t].state = StateDeadLetter
            /\ store[t].error = Boom
            /\ Cardinality(DLQEntriesOf(t)) = 1
            /\ \A k \in DLQEntriesOf(t) :
                   /\ dlqStream[k].reason = "max retries exceeded"
                   /\ dlqStream[k].original_error = Boom

\* C9: when the worker fiber w acknowledges the message of a task whose only
\* execution returned a result, the stored record is completed with
\* attempts = 1, worker w, the handler's result and no error, and no message
\* of the task is left in the PEL.
C9_RoundTrip ==
    [][\A w \in Pools :
          (pc[w] = "ack_ok" /\ pc'[w] = "idle" /\ hist[lt[w].id].invoked = 1) =>
              LET t == lt[w].id
              IN  /\ store'[t].state = StateCompleted
                  /\ store'[t].attempts = 1
                  /\ store'[t].worker = w
                  /\ store'[t].result = ResultR
                  /\ store'[t].error = NoError
                  /\ \A i \in MsgsOf(t) : msgs'[i].st = "acked"]_vars

\* C9, witness: a task submitted, claimed once, completed and acknowledged
C9_Witness ==
    \E t \in TaskIds :
        /\ Submitted(t)
        /\ hist[t].invoked = 1
        /\ store[t].state = StateCompleted
        /\ store[t].result = ResultR
        /\ Settled(t)
        /\ MsgsOf(t) # {}
        /\ \A i \in MsgsOf(t) : msgs[i].st = "acked"

\* C3: in every reachable state every stored task has
\* attempts <= max_retries + 1.
C3_AttemptsBounded ==
    \A t \in TaskIds : Submitted(t) => store[t].attempts <= store[t].max_retries + 1

\* C5: a pending task cancelled before any worker claimed it stays stored
\* as cancelled and its handler is never invoked.
C5_CancelledNeverRuns ==
    \A t \in TaskIds :
        hist[t].early => (store[t].state = StateCancelled /\ hist[t].invoked = 0)

\* C6: completed is terminal for the stored record.  Once a task is stored
\* as completed its stored state never changes and its handler is never
\* invoked again.
C6_CompletedTerminal ==
    [][\A t \in TaskIds :
          (Submitted(t) /\ store[t].state = StateCompleted) =>
              /\ store'[t].state = StateCompleted
              /\ hist'[t].invoked = hist[t].invoked]_vars

\* C7: exclusive ownership.  The handler of a task never runs in two worker
\* fibers at once.
C7_ExclusiveOwnership ==
    \A t \in TaskIds : Cardinality(Executing(t)) <= 1

\* C10: when the single worker's ClaimNext finds undelivered messages, the
\* message it returns was undelivered and no stream of a higher priority
\* held an undelivered message.
C10_PriorityPreference ==
    [][(pc[1] = "idle" /\ pc'[1] = "got") =>
          /\ msgs[lm'[1]].st = "new"
          /\ \A i \in 1..Len(msgs) :
                 msgs[i].st = "new" => msgs[i].priority <= msgs[lm'[1]].priority]_vars

\* C10, witness: every one of the four streams was seeded, and the first
\* claim returned a critical task
C10_Witness ==
    /\ pc[1] = "got"
    /\ \A t \in TaskIds : hist[t].invoked = 0
    /\ {msgs[i].priority : i \in 1..Len(msgs)} = AllPriorities
    /\ \A i \in 1..Len(msgs) : msgs[i].st # "acked"
    /\ msgs[lm[1]].priority = PriorityCritical

\* a PEL entry whose fiber stopped without acknowledging it
Orphaned(i) == i \in 1..Len(msgs) /\ msgs[i].st = "pending" /\ ~Held(i)

\* message i has left the PEL and its task was appended again after it
ReclaimedIn(ms, i) ==
    /\ i \in 1..Len(ms)
    /\ ms[i].st = "acked"
    /\ \E j \in (i + 1)..Len(ms) :
           ms[j].task = ms[i].task /\ ms[j].priority = ms[i].priority

Reclaimed(i) == ReclaimedIn(msgs, i)

\* the bound of the model on the messages ever appended is reached
AtCap == Len(msgs) = MaxMsgs

\* every XACK a recovery fiber sends finds the message in the PEL, after the
\* task was appended again to the stream of its priority
RecoveryAcksOnce ==
    [][\A p \in Pools :
          (rpc[p] = "ack" /\ rpc'[p] # "ack" /\ crashes' = crashes) =>
              LET i == Head(rbatch[p]).m
              IN  /\ msgs[i].st = "pending"
                  /\ ReclaimedIn(msgs', i)]_vars

\* every XACK a worker fiber sends finds the message in the PEL
WorkerAcksOnce ==
    [][\A w \in Pools :
          (pc[w] \in {"ack_ok", "rq_ack", "dlq_ack"} /\ pc'[w] = "idle" /\ crashes' = crashes) =>
              msgs[lm[w]].st = "pending" /\ msgs'[lm[w]].st = "acked"]_vars

\* an orphaned message is reclaimed, and its task is executed again
OrphanReclaimed ==
    \A i \in 1..MaxMsgs : Orphaned(i) ~> (Reclaimed(i) \/ AtCap)

OrphanExecutedAgain ==
    \A i \in 1..MaxMsgs : \A t \in 1..NumTasks : \A n \in 0..MaxMsgs :
        (Orphaned(i) /\ msgs[i].task = t /\ hist[t].invoked = n)
            ~> (hist[t].invoked > n \/ AtCap)

TransitionTable ==
    {<<StatePending, StateScheduled>>, <<StatePending, StateRunning>>,
     <<StatePending, StateCancelled>>,
     <<StateScheduled, StatePending>>, <<StateScheduled, StateRunning>>,
     <<StateScheduled, StateCancelled>>,
     <<StateRunning, StateCompleted>>, <<StateRunning, StateFailed>>,
     <<StateRunning, StateRetrying>>, <<StateRunning, StateCancelled>>,
     <<StateRetrying, StateRunning>>, <<StateRetrying, StateFailed>>,
     <<StateRetrying, StateDeadLetter>>, <<StateRetrying, StateCancelled>>,
     <<StateFailed, StateRetrying>>, <<StateFailed, StateDeadLetter>>,
     <<StateFailed, StatePending>>,
     <<StateDeadLetter, StatePending>>}

\* C11: state-machine totality.  CanTransitionTo is a boolean for each of the
\* 64 ordered pairs of states and is true exactly for the pairs of the table;
\* a Transition call succeeds, and moves the task to its target, exactly
\* when CanTransitionTo is true, and otherwise returns InvalidTransition
\* with the state as it was.
C11_Totality ==
    /\ Cardinality(States \X States) = 64
    /\ \A from \in States : \A to \in States :
           /\ CanTransitionTo(from, to) \in BOOLEAN
           /\ CanTransitionTo(from, to) <=> (<<from, to>> \in TransitionTable)
    /\ smLast.op = "Transition" =>
           /\ smLast.ok <=> (<<smLast.before.state, smLast.target>> \in TransitionTable)
           /\ smLast.ok => smLast.after.state = smLast.target
           /\ ~smLast.ok => smLast.after.state = smLast.before.state

\* C11, witness: a Transition call accepted (failed -> pending) on a task
\* that an earlier call had moved
C11_Witness ==
    /\ smLast.op = "Transition"
    /\ smLast.ok
    /\ smLast.before.state = StateFailed
    /\ smLast.target = StatePending
    /\ smLast.before.error = Boom

\* C12: a state-machine operation that returns InvalidTransition leaves
\* every field of the Task as it was.
C12_RejectedLeavesTask ==
    (smLast.op # "none" /\ ~smLast.ok) => smLast.after = smLast.before

\* C14: with no manual requeue, no step lowers the attempts value of a
\* task's stored record.
C14_AttemptsMonotonic ==
    [][\A t \in TaskIds :
          Submitted(t) => store'[t].attempts >= store[t].attempts]_vars

Undelivered(t) == {i \in MsgsOf(t) : msgs[i].st = "new"}

\* C18: manual requeue operations on a dead-lettered task, applied one
\* after another with no claim in between, leave exactly one message of the
\* task in its priority stream: once the operations are over, the task has
\* at most one undelivered message.
C18_RequeueIdempotent ==
    NoManualCall => \A t \in TaskIds : Cardinality(Undelivered(t)) <= 1

\* C19: a DLQ.Retry call that finds an entry for the id leaves the stored
\* record pending with attempts 0, no error and no worker, has appended
\* exactly one message for the task, and leaves the id in neither the DLQ
\* stream nor the DLQ set; a call that finds no entry returns TaskNotFound
\* and changes neither the queue nor the DLQ.
C19_DLQRetry ==
    [][/\ (dreq.at = "srem" /\ dreq'.at = "idle") =>
             LET t == dreq.task.id
             IN  /\ store'[t].state = StatePending
                 /\ store'[t].attempts = 0
                 /\ store'[t].error = NoError
                 /\ store'[t].worker = NoWorker
                 /\ Len(msgs') = dreq.nmsgs + 1
                 /\ msgs'[Len(msgs')].task = t
                 /\ msgs'[Len(msgs')].priority = store'[t].priority
                 /\ t \notin dlqSet'
                 /\ \A k \in 1..Len(dlqStream') :
                        dlqStream'[k].task = t => dlqStream'[k].deleted
       /\ (dreq.last # "not_found" /\ dreq'.last = "not_found") =>
             UNCHANGED <<store, msgs, dlqStream, dlqSet>>]_vars

\* the task has been promoted: it is pending, its stream holds a message for
\* it and the delayed index no longer names it
Promoted(t) ==
    /\ store[t] # NoTask
    /\ store[t].state = StatePending
    /\ MsgsOf(t) # {}
    /\ zset[t] = "absent"

\* C15: a task scheduled with Schedule and never cancelled is promoted once
\* its time has passed -- pending, a message in its stream, absent from the
\* delayed index -- when the scheduler loops keep running, also when a
\* scheduler crashes between two store calls of activateTask and runs again.
C15_EventuallyClaimable ==
    \A t \in 1..NumTasks : (zset[t] = "due") ~> Promoted(t)

\* C16: the schedulers append at most one message per scheduled task, for
\* any number of instances, any duration of a pass against the lock's TTL
\* and any crash point.
C16_NoDuplicatePromotion ==
    \A t \in TaskIds : Cardinality(MsgsOf(t)) <= 1

\* C17: every id in the delayed index names a task whose stored state is
\* scheduled.
C17_IndexNamesScheduled ==
    \A t \in TaskIds :
        zset[t] # "absent" => (store[t] # NoTask /\ store[t].state = StateScheduled)

\* the worker goroutines that hold a slot of the gate
Holding == {f \in Fibers : wpc[f] \in {"claim", "exec", "release"}}

\* the worker goroutines whose handler execution is in flight
InFlight == {f \in Fibers : wpc[f] = "exec"}

\* C20: in a pool of concurrency N at most N handler executions are in
\* flight and at most N slots of the gate are held, the slots held being
\* those of the goroutines inside an iteration; and a goroutine that holds a
\* slot leaves the iteration only through the release, which gives the slot
\* back, whatever the claim and the execution returned.
C20_BoundedConcurrency ==
    /\ [](/\ sem <= Concurrency
          /\ Cardinality(InFlight) <= Concurrency
          /\ Cardinality(InFlight) <= sem
          /\ sem = Cardinality(Holding))
    /\ [][\A f \in Fibers :
            /\ (f \in Holding /\ wpc'[f] # wpc[f]) =>
                   \/ wpc[f] # "release" /\ wpc'[f] \in {"exec", "release"}
                   \/ wpc[f] = "release" /\ wpc'[f] = "top" /\ sem' = sem - 1
            /\ (f \notin Holding /\ f \in Holding') => sem' = sem + 1]_vars

\* every slot is held, one handler has returned with its slot still held
\* and the other executions are in flight
C20_Witness ==
    /\ sem = Concurrency
    /\ \E f \in Fibers : wpc[f] = "release"
    /\ \A f \in Fibers : wpc[f] \in {"exec", "release"}

\* C21: once Stop has closed stopCh no worker goroutine begins a
\* DequeueBlocking call: a goroutine that is about to call processNextTask
\* while stopCh is closed does not make the call.
C21_NoClaimAfterStop ==
    [][\A f \in Fibers : (stopped /\ wpc[f] = "claim") => wpc'[f] = "claim"]_vars

\* C24: after Heartbeat.Stop has returned, the worker's id is absent from
\* workers:active and its heartbeat and info keys are absent, in every later
\* state.
C24_StoppedLeavesNothing ==
    stopAt = "returned" =>
        /\ PoolId \notin activeSet
        /\ hbKey = 0
        /\ infoKey.ttl = 0

\* Stop has returned after a heartbeat wrote all three keys, and the
\* registry has been read since
C24_Witness ==
    /\ stopAt = "returned"
    /\ hb.at = "exited"
    /\ listed.gen = 1

\* C23: every worker in a reply of GetActiveWorkers has its heartbeat key
\* at the time of the reply, and a worker whose heartbeat key has expired
\* is not in the reply and not in workers:active after the read.
C23_ListedAreAlive ==
    [][listed'.gen # listed.gen =>
          /\ \A w \in listed'.workers : IsWorkerAlive(hbKey)
          /\ ~IsWorkerAlive(hbKey) => (listed'.workers = {} /\ activeSet' = {})]_vars

\* C29: the worker record written at a heartbeat has the pool's state, the
\* number of executions in flight and the configured concurrency.
C29_RecordReflectsPool ==
    [][(hb.at = "info" /\ hb'.at = "sadd") =>
          infoKey'.data = [state |-> pstate,
                           active_tasks |-> Cardinality(InFlight),
                           concurrency |-> Concurrency]]_vars

\* C22: after Stop is called every worker goroutine and the recovery
\* goroutine exits, wherever it was waiting, and Stop returns.
C22_ShutdownTerminates ==
    stopped ~> (AllExited /\ stopAt = "returned")

\* Stop has returned, and every worker goroutine, the recovery goroutine and
\* the heartbeat loop have exited
C22_Witness ==
    /\ stopAt = "returned"
    /\ AllExited
    /\ hb.at = "exited"

\* the states a record takes once a worker has started the task
StartedStates == {StateRunning, StateCompleted, StateFailed, StateRetrying, StateDeadLetter}

\* C25: the stored record never goes from running, or from a state reached
\* after running, to cancelled; and a record stored as cancelled is never
\* overwritten with running, completed or failed.
C25_CancelOnlyBeforeStart ==
    [][\A t \in TaskIds :
          Submitted(t) =>
              /\ store[t].state \in StartedStates => store'[t].state # StateCancelled
              /\ store[t].state = StateCancelled =>
                     store'[t].state \notin {StateRunning, StateCompleted, StateFailed}]_vars

\* the tasks the queue holds: submitted, with a message not yet acknowledged
Unfinished == {t \in TaskIds : Submitted(t) /\ HasLiveMessage(t)}

\* C26: with max_queue_size = M > 0 the number of submitted and unfinished
\* tasks held by the queue never exceeds M.
C26_QueueBounded == Cardinality(Unfinished) <= MaxQueueSize

\* C27: for every attempt n >= 1, every jitter factor in [0, 1] and every
\* draw, the delay returned by CalculateBackoff is at least initial_backoff.
C27_BackoffLowerBound ==
    bo.attempt >= 1 => bo.reply >= bo.policy.initial

\* C28: without jitter, for all attempts 1 <= a < b,
\* backoff(a) <= backoff(b) <= max_backoff, where
\* backoff(n) = min(initial_backoff * backoff_factor^n, max_backoff).
C28_BackoffMonotonic ==
    (bo.attempt >= 1 /\ bo.policy.jitter = 0) =>
        /\ bo.reply <= bo.policy.max
        /\ \A a \in 1..(bo.attempt - 1) :
               CalculateBackoff(bo.policy, a, bo.draw) <= bo.reply
        /\ LET x == bo.policy.initial * Pow(bo.policy.factor, bo.attempt)
           IN  bo.reply = IF x < bo.policy.max THEN x ELSE bo.policy.max

\* a call without jitter whose reply is the cap, after an attempt whose
\* reply was below the cap
C28_Witness ==
    /\ bo.policy.jitter = 0
    /\ bo.attempt >= 2
    /\ bo.reply = bo.policy.max
    /\ CalculateBackoff(bo.policy, 1, 0) < bo.policy.max
    /\ bo.policy.initial * Pow(bo.policy.factor, bo.attempt) > bo.policy.max

\* C30: in the settlement of a retryable failure the worker acknowledges
\* the original message only when the task has been appended again to its
\* priority stream and its record exists; when the re-Submit failed the
\* original message is not acknowledged.
C30_RetryNeverLoses ==
    [][\A w \in Pools :
          (pc[w] = "rq_ack" /\ pc'[w] = "idle" /\ crashes' = crashes) =>
              /\ \E i \in (lm[w] + 1)..Len(msgs) : msgs[i].task = lt[w].id
              /\ store[lt[w].id] # NoTask]_vars

\* the scheduler instances inside a promotion pass: SETNX succeeded and the
\* deferred DEL has not run
InPass == {s \in Schedulers : sched[s].at # "idle"}

\* C31: at any moment at most one scheduler instance is inside a promotion
\* pass, between acquiring scheduler:lock and releasing it, for any number of
\* instances and any duration of a pass against the lock's TTL.
C31_SchedulerMutex ==
    Cardinality(InPass) <= 1

\* C32: the record that the recovery fiber re-appends for a reclaimed task
\* has attempts = 0 and an empty error, as after Requeue.
C32_RecoveryResetsAttempts ==
    \A p \in Pools :
        rpc[p] = "xadd" =>
            /\ Head(rbatch[p]).t.attempts = 0
            /\ Head(rbatch[p]).t.error = NoError

\* C33: after a failed execution the worker re-submits the task if and only
\* if ShouldRetry of the pool's retry policy holds for it, attempts <
\* max_attempts, and routes it to the DLQ otherwise, whatever the task's
\* max_retries.
C33_RetryDecision ==
    [][\A w \in Pools :
          (pc[w] = "running" /\ pc'[w] \in {"rq_set", "dlq_xadd"}) =>
              (pc'[w] = "rq_set" <=> ShouldRetry(DefaultRetryPolicy, lt[w]))]_vars

\* the goroutines inside processNextTask
Claiming == {f \in Fibers : wpc[f] \in {"claim", "exec", "release"}}

C35_ResumeWakesAll ==
    \A f \in Fibers : wpc[f] = "wait" => pstate # StateBusy

C37_DiscardOnlyWhenAbsent ==
    [][\A w \in Pools :
          (pc[w] = "got" /\ pc'[w] = "idle" /\ msgs'[lm[w]].st = "acked") =>
              store[msgs[lm[w]].task] = NoTask]_vars

\* C38: once every DLQ.Add, DLQ.Retry, admin RetryTask and worker execution
\* that was started is over, a task id is in the DLQ set if and only if the
\* DLQ stream holds at least one entry for it.
C38_DLQSetMatchesStream ==
    (NoManualCall /\ WorkersIdle) =>
        \A t \in TaskIds : t \in dlqSet <=> DLQEntriesOf(t) # {}

\* C39: every message that a DequeueBlocking call causes the store to
\* deliver, so that it enters the PEL, is the one the call returns to its
\* caller or is acknowledged by the call; with several non-empty priority
\* streams none is left in the PEL unprocessed.
C39_DeliveredIsReturned ==
    [][\A i \in 1..Len(msgs) :
          (msgs[i].st = "new" /\ msgs'[i].st = "pending") =>
              \E w \in Pools : lm'[w] = i]_vars

\* C40: while a pool keeps running its worker and recovery fibers and store
\* calls succeed, no message stays in the PEL for ever; stated for the case
\* the claim names, a delivered message whose task record is absent: it is
\* eventually acknowledged.
C40_EventuallyAcked ==
    \A i \in 1..MaxMsgs :
        (i <= Len(msgs) /\ msgs[i].st = "pending" /\ store[msgs[i].task] = NoTask)
            ~> (i <= Len(msgs) /\ msgs[i].st = "acked")
====
